---- MODULE Spec2Model ----
(***************************************************************************)
(* Model of src/sort.rs (csvlens): the background column sorter.           *)
(*                                                                         *)
(* A Sorter handle shares a Mutex<SorterInternalState> with one worker     *)
(* thread that is spawned by SorterInternalState::init.  The worker runs   *)
(* infer_schema -> File::open -> batch loop -> concat -> sort_to_indices   *)
(* -> result construction, and then publishes the outcome under the lock.  *)
(* Clients call get_sorted_indices, get_record_order, status, terminate    *)
(* and finally drop the handle.                                            *)
(*                                                                         *)
(* Rust vectors are 0-based; a vector v is the sequence s with             *)
(* v[i] = s[i + 1].  u64/usize are scaled down to WordBits bits; usize is  *)
(* taken to be as wide as u64 (a 64-bit target).                           *)
(***************************************************************************)
EXTENDS Integers, Sequences, FiniteSets, TLC

----------------------------------------------------------------------------
(* Bounds of the model *)

\* largest number of data rows of the CSV column
MaxRows == 3
\* rows per record batch of the arrow CSV reader (scaled down)
BatchSize == 2
\* width of u64 / usize in the model (scaled down from 64)
WordBits == 2

----------------------------------------------------------------------------
(* Fixed-width arithmetic *)

RECURSIVE Pow2(_)
Pow2(n) == IF n = 0 THEN 1 ELSE 2 * Pow2(n - 1)

\* number of values of a u64
WordMod == Pow2(WordBits)
\* u64::MAX
WordMax == WordMod - 1
\* the values of a u64
Word == 0..WordMax
\* the u64 arguments the clients of the model call with
ProbeArgs == {0, 1, 2, WordMax}

\* `i as usize` of a u64 i (line 53, 65)
AsUsize(i) == i % WordMod

\* `x as u64` of a usize x (line 54, 66)
AsU64(x) == x % WordMod

Min(a, b) == IF a < b THEN a ELSE b
Max(a, b) == IF a > b THEN a ELSE b

----------------------------------------------------------------------------
(* Option / Result values *)

None == [tag |-> "None"]
Some(v) == [tag |-> "Some", val |-> v]
\* the call did not return: the calling thread panicked
Panicked == [tag |-> "Panic"]

Ok(v) == [tag |-> "Ok", val |-> v]
Err(m) == [tag |-> "Err", msg |-> m]
\* run() has not returned yet
NoRun == [tag |-> "NoRun"]

\* SorterStatus
Running == [tag |-> "Running", msg |-> ""]
Finished == [tag |-> "Finished", msg |-> ""]
Error(m) == [tag |-> "Error", msg |-> m]

\* Vec::get(i)
Get(v, i) == IF i < Len(v) THEN Some(v[i + 1]) ELSE None

----------------------------------------------------------------------------
(* The dataset: one projected column and how reading it can fail *)

\* the cells of the column as the reader decodes them: 0 stands for a null
\* cell (an empty field), 1 and 2 for two keys with 1 < 2
Values == {0, 1, 2}
IsNull(v) == v = 0

\* the record batches of exactly n rows that the reader can decode
RECURSIVE Rows(_)
Rows(n) ==
    IF n = 0 THEN {<<>>}
    ELSE {Append(s, x) : s \in Rows(n - 1), x \in Values}

\* number of record batches the reader yields for a column of n rows
NumBatches(n) == (n + BatchSize - 1) \div BatchSize

\* number of rows of the b-th record batch (b = 1, 2, ...) of a column of n rows
BatchLen(n, b) == Min(b * BatchSize, n) - (b - 1) * BatchSize

\* rows: the data rows the reader can decode (the header excluded).
\* fail = "none": every step succeeds; "infer": infer_schema fails;
\* "open": File::open fails; "read": the reader's next() yields Err after
\* the rows have been read
Datasets ==
    [rows : 0..MaxRows, fail : {"none", "read"}]
    \cup [rows : {0}, fail : {"infer", "open"}]

----------------------------------------------------------------------------
(* State *)

VARIABLES
    file,             \* the dataset behind csv_config (fixed for a run)
    sort_result,      \* SorterInternalState.sort_result : Option<SortResult>
    status,           \* SorterInternalState.status
    should_terminate, \* SorterInternalState.should_terminate
    done,             \* SorterInternalState.done
    lock,             \* holder of the Mutex: "none" | "worker"
    pc,               \* position of the worker thread
    arrs,             \* run(): the batches pushed so far (kept after run returns)
    flag,             \* run(): value read from should_terminate at line 151
    run_result,       \* the value returned by run() (line 181)
    handle,           \* the Sorter handle: "live" | "dropped" | "panicked"
    lastCall,         \* the latest client call, its arguments and its result
    checks,           \* history: number of flag checks the worker has made
    flagSetAt,        \* history: value of checks when the flag was first set, -1 if never
    firstOp           \* history: the first client operation after new()

shared == <<sort_result, status, should_terminate, done>>
worker == <<pc, arrs, flag, run_result, checks>>
client == <<handle, lastCall, flagSetAt, firstOp>>
vars == <<file, sort_result, status, should_terminate, done,
          lock, pc, arrs, flag, run_result, handle, lastCall,
          checks, flagSetAt, firstOp>>

NoCall == [op |-> "none", a |-> 0, b |-> 0, st |-> Running, ret |-> None]

\* Sorter::new (lines 38-46) and SorterInternalState::init (lines 115-128):
\* the state when new() returns; the worker thread has been spawned.
Init ==
    /\ file \in Datasets
    /\ sort_result = None
    /\ status = Running
    /\ should_terminate = FALSE
    /\ done = FALSE
    /\ lock = "none"
    /\ pc = "infer"
    /\ arrs = <<>>
    /\ flag = FALSE
    /\ run_result = NoRun
    /\ handle = "live"
    /\ lastCall = NoCall
    /\ checks = 0
    /\ flagSetAt = -1
    /\ firstOp = "none"

----------------------------------------------------------------------------
(* Pure parts of run() *)

\* arrow::compute::concat of the pushed batches (line 159), for a non-empty list
RECURSIVE Concat(_)
Concat(as) == IF as = <<>> THEN <<>> ELSE Head(as) \o Concat(Tail(as))

\* all orderings of the row indices 0..n-1
Perms(n) ==
    {p \in [1..n -> 0..(n - 1)] : \A i, j \in 1..n : i # j => p[i] # p[j]}

\* the order of SortOptions { descending: true, nulls_first: true }
BeforeDescending(x, y) ==
    \/ IsNull(x) /\ ~IsNull(y)
    \/ ~IsNull(x) /\ ~IsNull(y) /\ x > y

\* the order of SortOptions { descending: false, nulls_first: false }
BeforeNullsLast(x, y) ==
    \/ ~IsNull(x) /\ IsNull(y)
    \/ ~IsNull(x) /\ ~IsNull(y) /\ x < y

\* the order of sort_to_indices with options None (line 163), that is
\* SortOptions::default(): ascending, nulls first
Before(x, y) ==
    \/ IsNull(x) /\ ~IsNull(y)
    \/ ~IsNull(x) /\ ~IsNull(y) /\ x < y

\* kernels::sort::sort_to_indices(combined_arr, None, None) (lines 162-163):
\* the index arrays it may return.  The kernel sorts unstably, so the order
\* of rows with equal keys is any.
SortToIndices(col) ==
    {p \in Perms(Len(col)) :
        \A r, s \in 1..Len(col) : r < s => ~Before(col[p[s] + 1], col[p[r] + 1])}

\* ResultLoop with the two sides of line 172 exchanged:
\* record_orders[record_order] = sorted_record_index
RECURSIVE ResultLoopExchanged(_, _, _, _)
ResultLoopExchanged(sorted_indices, k, sorted_record_indices, record_orders) ==
    IF k > Len(sorted_indices)
    THEN [record_indices |-> sorted_record_indices, record_orders |-> record_orders]
    ELSE ResultLoopExchanged(sorted_indices, k + 1,
                    Append(sorted_record_indices, AsUsize(sorted_indices[k])),
                    [record_orders EXCEPT ![k] = AsUsize(sorted_indices[k])])

\* the loop of lines 166-173, from its k-th iteration on
RECURSIVE ResultLoop(_, _, _, _)
ResultLoop(sorted_indices, k, sorted_record_indices, record_orders) ==
    IF k > Len(sorted_indices)
    THEN [record_indices |-> sorted_record_indices, record_orders |-> record_orders]
    ELSE ResultLoop(sorted_indices, k + 1,
                    Append(sorted_record_indices, AsUsize(sorted_indices[k])),
                    [record_orders EXCEPT ![AsUsize(sorted_indices[k]) + 1] = k - 1])

\* lines 166-177: the SortResult built from the sorted indices
MakeSortResult(sorted_indices) ==
    ResultLoop(sorted_indices, 1, <<>>, [i \in 1..Len(sorted_indices) |-> 0])

----------------------------------------------------------------------------
(* The worker thread (lines 128-191) *)

\* line 136: infer_schema(filename, delimiter)?
WorkerInfer ==
    /\ pc = "infer"
    /\ IF file.fail = "infer"
       THEN /\ run_result' = Err("InferenceError")
            /\ pc' = "publish"
       ELSE /\ run_result' = run_result
            /\ pc' = "open"
    /\ UNCHANGED <<file, shared, lock, arrs, flag,
                   checks, client>>

\* lines 137-143: File::open(filename)? and the reader's construction
WorkerOpen ==
    /\ pc = "open"
    /\ IF file.fail = "open"
       THEN /\ run_result' = Err("IoError")
            /\ pc' = "publish"
       ELSE /\ run_result' = run_result
            /\ pc' = "next"
    /\ UNCHANGED <<file, shared, lock, arrs, flag,
                   checks, client>>

\* WorkerNextBatch that goes on to the second batch without the flag check
WorkerNextBatchUnchecked ==
    /\ pc = "next"
    /\ LET b == Len(arrs) + 1 IN
       IF b <= NumBatches(file.rows)
       THEN /\ \E record_batch \in Rows(BatchLen(file.rows, b)) :
                  arrs' = Append(arrs, record_batch)
            /\ pc' = IF b = 1 THEN "next" ELSE "check"
            /\ run_result' = run_result
       ELSE IF file.fail = "read"
       THEN /\ run_result' = Err("ReadError")
            /\ pc' = "publish"
            /\ arrs' = arrs
       ELSE /\ pc' = "concat"
            /\ UNCHANGED <<arrs, run_result>>
    /\ UNCHANGED <<file, shared, lock, flag, checks, client>>

\* lines 147-150: the reader's next(), `record_batch_result?` and the push
WorkerNextBatch ==
    /\ pc = "next"
    /\ LET b == Len(arrs) + 1 IN
       IF b <= NumBatches(file.rows)
       THEN /\ \E record_batch \in Rows(BatchLen(file.rows, b)) :
                  arrs' = Append(arrs, record_batch)
            /\ pc' = "check"
            /\ run_result' = run_result
       ELSE IF file.fail = "read"
       THEN /\ run_result' = Err("ReadError")
            /\ pc' = "publish"
            /\ arrs' = arrs
       ELSE /\ pc' = "concat"
            /\ UNCHANGED <<arrs, run_result>>
    /\ UNCHANGED <<file, shared, lock, flag, checks,
                   client>>

\* WorkerCheckLock that never sees the flag
WorkerCheckLockBlind ==
    /\ pc = "check"
    /\ lock = "none"
    /\ lock' = "worker"
    /\ flag' = FALSE
    /\ checks' = checks + 1
    /\ pc' = "checked"
    /\ UNCHANGED <<file, shared, arrs, run_result, client>>

\* line 151: m.lock().unwrap() and the read of should_terminate
WorkerCheckLock ==
    /\ pc = "check"
    /\ lock = "none"
    /\ lock' = "worker"
    /\ flag' = should_terminate
    /\ checks' = checks + 1
    /\ pc' = "checked"
    /\ UNCHANGED <<file, shared, arrs, run_result,
                   client>>

\* WorkerCheckUnlock that leaves the batch loop with `break` on cancellation
WorkerCheckUnlockBreak ==
    /\ pc = "checked"
    /\ lock' = "none"
    /\ pc' = IF flag THEN "concat" ELSE "next"
    /\ UNCHANGED <<file, shared, arrs, flag, run_result, checks, client>>

\* WorkerCheckUnlock with the guard bound to a variable that lives on
WorkerCheckUnlockKeepsGuard ==
    /\ pc = "checked"
    /\ lock' = lock
    /\ IF flag
       THEN /\ run_result' = Err("Terminated")
            /\ pc' = "publish"
       ELSE /\ run_result' = run_result
            /\ pc' = "next"
    /\ UNCHANGED <<file, shared, arrs, flag, checks, client>>

\* lines 151-153: the guard is released; return Err("Terminated") if the flag was set
WorkerCheckUnlock ==
    /\ pc = "checked"
    /\ lock' = "none"
    /\ IF flag
       THEN /\ run_result' = Err("Terminated")
            /\ pc' = "publish"
       ELSE /\ run_result' = run_result
            /\ pc' = "next"
    /\ UNCHANGED <<file, shared, arrs, flag, checks,
                   client>>

\* lines 155-159: concat(&ref_arrs).unwrap(); concat returns Err for an empty
\* list of arrays, and the unwrap then panics
WorkerConcat ==
    /\ pc = "concat"
    /\ IF arrs = <<>>
       THEN /\ pc' = "panicked"
            /\ arrs' = arrs
       ELSE /\ pc' = "sort"
            /\ arrs' = arrs
    /\ UNCHANGED <<file, shared, lock, flag,
                   run_result, checks, client>>

\* lines 162-178: sort_to_indices and the construction of the SortResult
WorkerSort ==
    /\ pc = "sort"
    /\ \E sorted_indices \in SortToIndices(Concat(arrs)) :
          run_result' = Ok(MakeSortResult(sorted_indices))
    /\ pc' = "publish"
    /\ UNCHANGED <<file, shared, lock, arrs, flag,
                   checks, client>>

\* WorkerPublishLock that reads the flag once more and discards the result
\* of run() when it is set
WorkerPublishLockChecksFlag ==
    /\ pc = "publish"
    /\ lock = "none"
    /\ lock' = "worker"
    /\ pc' = "store"
    /\ run_result' = IF should_terminate THEN Err("Terminated") ELSE run_result
    /\ UNCHANGED <<file, shared, arrs, flag, checks, client>>

\* line 183: _m.lock().unwrap()
WorkerPublishLock ==
    /\ pc = "publish"
    /\ lock = "none"
    /\ lock' = "worker"
    /\ pc' = "store"
    /\ UNCHANGED <<file, shared, arrs, flag,
                   run_result, checks, client>>

\* WorkerStore with the result published in a critical section of its own:
\* the lock is released between storing the result and setting the status
WorkerStoreUnlocked ==
    /\ pc = "store"
    /\ IF run_result.tag = "Ok"
       THEN /\ sort_result' = Some(run_result.val)
            /\ status' = status
            /\ pc' = "finish"
       ELSE /\ status' = Error(run_result.msg)
            /\ sort_result' = sort_result
            /\ pc' = "done"
    /\ lock' = "none"
    /\ UNCHANGED <<file, should_terminate, done, arrs, flag, run_result, checks,
                   client>>

\* WorkerStore that keeps what was read so far when run() failed
WorkerStorePartialOnError ==
    /\ pc = "store"
    /\ IF run_result.tag = "Ok"
       THEN /\ sort_result' = Some(run_result.val)
            /\ status' = status
            /\ pc' = "finish"
       ELSE /\ status' = Error(run_result.msg)
            /\ sort_result' = Some(MakeSortResult([i \in 1..Len(Concat(arrs)) |-> i - 1]))
            /\ pc' = "done"
    /\ UNCHANGED <<file, should_terminate, done, lock, arrs, flag, run_result,
                   checks, client>>

\* lines 184-185 and 187-188: Ok: m.sort_result = Some(sort_result);
\* Err: m.status = Error(message)
WorkerStore ==
    /\ pc = "store"
    /\ IF run_result.tag = "Ok"
       THEN /\ sort_result' = Some(run_result.val)
            /\ status' = status
            /\ pc' = "finish"
       ELSE /\ status' = Error(run_result.msg)
            /\ sort_result' = sort_result
            /\ pc' = "done"
    /\ UNCHANGED <<file, should_terminate, done, lock,
                   arrs, flag, run_result, checks, client>>

\* line 186: m.status = SorterStatus::Finished
WorkerFinish ==
    /\ pc = "finish"
    /\ status' = Finished
    /\ pc' = "done"
    /\ UNCHANGED <<file, sort_result, should_terminate, done,
                   lock, arrs, flag, run_result, checks, client>>

\* WorkerDone with line 190 moved into the Ok arm: done is set only with Finished
WorkerDoneOnlyIfFinished ==
    /\ pc = "done"
    /\ done' = (status = Finished)
    /\ pc' = "unlock"
    /\ UNCHANGED <<file, sort_result, status, should_terminate,
                   lock, arrs, flag, run_result, checks, client>>

\* line 190: m.done = true
WorkerDone ==
    /\ pc = "done"
    /\ done' = TRUE
    /\ pc' = "unlock"
    /\ UNCHANGED <<file, sort_result, status, should_terminate,
                   lock, arrs, flag, run_result, checks, client>>

\* line 191: the closure ends, the guard m is dropped and the thread exits
WorkerExit ==
    /\ pc = "unlock"
    /\ lock' = "none"
    /\ pc' = "exited"
    /\ UNCHANGED <<file, shared, arrs, flag,
                   run_result, checks, client>>

Worker ==
    \/ WorkerInfer
    \/ WorkerOpen
    \/ WorkerNextBatch
    \/ WorkerCheckLock
    \/ WorkerCheckUnlock
    \/ WorkerConcat
    \/ WorkerSort
    \/ WorkerPublishLock
    \/ WorkerStore
    \/ WorkerFinish
    \/ WorkerDone
    \/ WorkerExit

----------------------------------------------------------------------------
(* The client side: the methods of Sorter (lines 48-94) *)

\* WindowLoop over the inclusive range rows_from..=end
RECURSIVE WindowLoopInclusive(_, _, _, _)
WindowLoopInclusive(record_indices, i, end, out) ==
    IF i > end THEN out
    ELSE WindowLoopInclusive(record_indices, i + 1, end,
                             IF Get(record_indices, AsUsize(i)).tag = "Some"
                             THEN Append(out, AsU64(Get(record_indices, AsUsize(i)).val))
                             ELSE out)

\* lines 52-56: the loop over i in rows_from..end, from i on
RECURSIVE WindowLoop(_, _, _, _)
WindowLoop(record_indices, i, end, out) ==
    IF i >= end THEN out
    ELSE WindowLoop(record_indices, i + 1, end,
                    IF Get(record_indices, AsUsize(i)).tag = "Some"
                    THEN Append(out, AsU64(Get(record_indices, AsUsize(i)).val))
                    ELSE out)

\* SortedIndices that answers an empty window while no result is stored
SortedIndicesEmptyIfAbsent(rows_from, num_rows, overflow_checks) ==
    IF sort_result.tag = "Some"
    THEN IF rows_from + num_rows > WordMax /\ overflow_checks
         THEN Panicked
         ELSE Some(WindowLoop(sort_result.val.record_indices, rows_from,
                              (rows_from + num_rows) % WordMod, <<>>))
    ELSE Some(<<>>)

\* lines 50-59: what get_sorted_indices(rows_from, num_rows) returns with the
\* lock held.  rows_from + num_rows is a u64 addition: on overflow it panics
\* when the build has overflow checks (overflow_checks) and wraps otherwise.
SortedIndices(rows_from, num_rows, overflow_checks) ==
    IF sort_result.tag = "Some"
    THEN IF rows_from + num_rows > WordMax /\ overflow_checks
         THEN Panicked
         ELSE Some(WindowLoop(sort_result.val.record_indices, rows_from,
                              (rows_from + num_rows) % WordMod, <<>>))
    ELSE None

\* RecordOrder that looks the row up in record_indices
RecordOrderFromIndices(row_index) ==
    IF sort_result.tag = "Some"
    THEN IF Get(sort_result.val.record_indices, AsUsize(row_index)).tag = "Some"
         THEN Some(AsU64(Get(sort_result.val.record_indices, AsUsize(row_index)).val))
         ELSE None
    ELSE None

\* lines 64-69: what get_record_order(row_index) returns with the lock held
RecordOrder(row_index) ==
    IF sort_result.tag = "Some"
    THEN IF Get(sort_result.val.record_orders, AsUsize(row_index)).tag = "Some"
         THEN Some(AsU64(Get(sort_result.val.record_orders, AsUsize(row_index)).val))
         ELSE None
    ELSE None

\* self.internal.lock().unwrap() of a client call can be taken now.  The
\* Mutex is poisoned only by a panic of get_sorted_indices, which needs a
\* stored result; the worker takes the lock for the last time to store it, so
\* no lock() of the worker meets a poisoned Mutex.  A client whose call
\* panicked makes no further call (handle = "panicked").
CanLock ==
    /\ handle = "live"
    /\ lock = "none"

\* firstOp after a call of op: "terminate" or "other"
Note(op) == IF firstOp = "none" THEN op ELSE firstOp

\* Sorter::get_sorted_indices (lines 48-60)
GetSortedIndices ==
    /\ CanLock
    /\ \E rows_from \in ProbeArgs, num_rows \in ProbeArgs :
       \E overflow_checks \in IF rows_from + num_rows > WordMax THEN BOOLEAN ELSE {FALSE} :
          LET ret == SortedIndices(rows_from, num_rows, overflow_checks)
          IN  /\ lastCall' = [op |-> "get_sorted_indices", a |-> rows_from,
                              b |-> num_rows, st |-> status, ret |-> ret]
              /\ handle' = IF ret = Panicked THEN "panicked" ELSE handle
    /\ firstOp' = Note("other")
    /\ UNCHANGED <<file, shared, lock, worker, flagSetAt>>

\* Sorter::get_record_order (lines 62-70)
GetRecordOrder ==
    /\ CanLock
    /\ \E row_index \in ProbeArgs :
          lastCall' = [op |-> "get_record_order", a |-> row_index, b |-> 0,
                       st |-> status, ret |-> RecordOrder(row_index)]
    /\ firstOp' = Note("other")
    /\ UNCHANGED <<file, shared, lock, worker, handle, flagSetAt>>

\* Sorter::status (lines 72-74)
Status ==
    /\ CanLock
    /\ lastCall' = [op |-> "status", a |-> 0, b |-> 0, st |-> status,
                    ret |-> Some(status)]
    /\ firstOp' = Note("other")
    /\ UNCHANGED <<file, shared, lock, worker, handle, flagSetAt>>

\* Sorter::order (lines 76-78): reads the handle's own field, takes no lock;
\* new() sets order to Ascending (line 43) and nothing changes it
Order ==
    /\ handle = "live"
    /\ lastCall' = [op |-> "order", a |-> 0, b |-> 0, st |-> status,
                    ret |-> Some("Ascending")]
    /\ firstOp' = Note("other")
    /\ UNCHANGED <<file, shared, lock, worker, handle, flagSetAt>>

\* Sorter::column_name (lines 80-82): reads the handle's own field, takes no lock
ColumnName ==
    /\ handle = "live"
    /\ lastCall' = [op |-> "column_name", a |-> 0, b |-> 0, st |-> status,
                    ret |-> Some("column_name")]
    /\ firstOp' = Note("other")
    /\ UNCHANGED <<file, shared, lock, worker, handle, flagSetAt>>

\* tests::Sorter::wait_internal (lines 233-240): one round of its loop, the
\* read of done under the lock; the call returns when it reads true
WaitInternal ==
    /\ CanLock
    /\ lastCall' = [op |-> "wait_internal", a |-> 0, b |-> 0, st |-> status,
                    ret |-> Some(done)]
    /\ firstOp' = Note("other")
    /\ UNCHANGED <<file, shared, lock, worker, handle, flagSetAt>>

\* terminate that also reports the cancellation in the status
SetTerminateAndStatus ==
    /\ should_terminate' = TRUE
    /\ status' = Error("Terminated")
    /\ UNCHANGED <<sort_result, done>>

\* terminate that flips the flag instead of setting it
SetTerminateToggle ==
    /\ should_terminate' = ~should_terminate
    /\ UNCHANGED <<sort_result, status, done>>

\* SorterInternalState::terminate (lines 222-224)
SetTerminate ==
    /\ should_terminate' = TRUE
    /\ UNCHANGED <<sort_result, status, done>>

\* Sorter::terminate (lines 84-87), called by the client or by drop
TerminateCall ==
    /\ SetTerminate
    /\ flagSetAt' = IF should_terminate THEN flagSetAt ELSE checks
    /\ UNCHANGED <<file, lock, worker>>

\* a client calls Sorter::terminate
Terminate ==
    /\ CanLock
    /\ TerminateCall
    /\ lastCall' = [op |-> "terminate", a |-> 0, b |-> 0, st |-> status,
                    ret |-> None]
    /\ firstOp' = Note("terminate")
    /\ handle' = handle

\* Drop for Sorter (lines 90-94): the handle is released
Drop ==
    /\ CanLock
    /\ TerminateCall
    /\ handle' = "dropped"
    /\ lastCall' = [op |-> "drop", a |-> 0, b |-> 0, st |-> status, ret |-> None]
    /\ firstOp' = Note("other")

Next ==
    \/ WorkerInfer
    \/ WorkerOpen
    \/ WorkerNextBatch
    \/ WorkerCheckLock
    \/ WorkerCheckUnlock
    \/ WorkerConcat
    \/ WorkerSort
    \/ WorkerPublishLock
    \/ WorkerStore
    \/ WorkerFinish
    \/ WorkerDone
    \/ WorkerExit
    \/ GetSortedIndices
    \/ GetRecordOrder
    \/ Status
    \/ Order
    \/ ColumnName
    \/ WaitInternal
    \/ Terminate
    \/ Drop

Spec == Init /\ [][Next]_vars

\* the worker is a running thread: the scheduler lets it take its steps
FairSpec == Spec /\ WF_vars(Worker)

----------------------------------------------------------------------------
(* Properties *)

IsQuery(call) == call.op \in {"get_sorted_indices", "get_record_order"}

\* the window get_sorted_indices(rows_from, num_rows) is specified to return:
\* k = min(num_rows, max(0, N - rows_from)) entries from rank rows_from on
Window(record_indices, rows_from, num_rows) ==
    LET k == Min(num_rows, Max(0, Len(record_indices) - rows_from))
    IN  IF k = 0 THEN <<>>
        ELSE SubSeq(record_indices, rows_from + 1, rows_from + k)

\* C1: whenever the worker does not hold the lock, status is Finished if and
\* only if a SortResult is stored; no query sees a result unless the status
\* it was made under is Finished, and get_sorted_indices under Finished
\* always finds the result.
C1_FinishedIffResult ==
    /\ lock # "worker" => (status = Finished <=> sort_result.tag = "Some")
    /\ IsQuery(lastCall) /\ lastCall.ret.tag = "Some" => lastCall.st = Finished
    /\ lastCall.op = "get_sorted_indices" /\ lastCall.st = Finished
          => lastCall.ret.tag # "None"

C1_Witness ==
    /\ lock = "none"
    /\ status = Finished
    /\ sort_result.tag = "Some"
    /\ lastCall.op = "get_sorted_indices"
    /\ lastCall.st = Finished
    /\ lastCall.ret.tag = "Some"

\* C2: the status changes only from Running, only in a step the worker takes
\* inside its publish section, and a stored result never changes: once the
\* status is Finished or Error no step of the worker or of a client changes
\* it again.
C2_TerminalNeverChanges ==
    [][/\ status # Running => status' = status
       /\ sort_result.tag = "Some" => sort_result' = sort_result
       /\ status' # status => /\ status = Running
                              /\ lock = "worker"
                              /\ pc \in {"store", "finish"}]_vars

C2_Witness ==
    /\ status = Finished
    /\ should_terminate
    /\ handle = "dropped"
    /\ lastCall.st = Finished
    /\ flagSetAt >= 0
    /\ pc = "exited"

\* C3 (as claimed): when terminate() is the first thing the client does
\* after new(), the status never becomes Finished.
C3_TerminateAfterNewNeverFinished ==
    firstOp = "terminate" => status # Finished

\* C3 (amended): when terminate() is called before the worker's first check
\* of should_terminate, the status never becomes Finished and the worker
\* never sorts; and once the worker has read its first batch, the status
\* eventually becomes Error("Terminated").
C3_TerminateBeforeFirstCheck ==
    /\ [](flagSetAt = 0 => /\ status # Finished
                           /\ pc \notin {"sort", "finish"}
                           /\ checks >= 1 /\ status.tag = "Error"
                                 => status = Error("Terminated"))
    /\ (flagSetAt = 0 /\ pc = "check") ~> (status = Error("Terminated"))

C3_Witness ==
    /\ firstOp = "terminate"
    /\ flagSetAt = 0
    /\ checks = 1
    /\ file.rows > BatchSize
    /\ status = Error("Terminated")
    /\ done

\* C4: when the worker thread has ended, it has set a terminal status and
\* done = true.
C4_WorkerEndsWithTerminalStatus ==
    pc \in {"exited", "panicked"} => done /\ status # Running

\* C5: while the status is Running, get_sorted_indices and get_record_order
\* return None for every argument: for every call a client made under
\* Running, and for every u64 argument a client could call with now.
C5_RunningQueriesReturnNone ==
    /\ IsQuery(lastCall) /\ lastCall.st = Running => lastCall.ret = None
    /\ status = Running /\ lock = "none" =>
          \A a \in Word :
             /\ RecordOrder(a) = None
             /\ \A b \in Word, oc \in BOOLEAN : SortedIndices(a, b, oc) = None

C5_Witness ==
    /\ status = Running
    /\ pc = "sort"
    /\ lastCall.op = "get_sorted_indices"
    /\ lastCall.st = Running
    /\ lastCall.ret = None
    /\ lastCall.b > 0

\* C6: once the status is Error, both queries return None from then on, the
\* status and the (absent) result never change again, and the worker never
\* runs the job again.
C6_ErrorIsFinal ==
    /\ [](status.tag = "Error" =>
            /\ sort_result = None
            /\ IsQuery(lastCall) => lastCall.ret = None
            /\ lock = "none" =>
                  \A a \in Word :
                     /\ RecordOrder(a) = None
                     /\ \A b \in Word, oc \in BOOLEAN : SortedIndices(a, b, oc) = None)
    /\ [][status.tag = "Error" =>
            /\ status' = status
            /\ sort_result' = None
            /\ run_result' = run_result
            /\ arrs' = arrs
            /\ pc' \in {"done", "unlock", "exited"}]_vars

C6_Witness ==
    /\ status.tag = "Error"
    /\ status.msg # "Terminated"
    /\ pc = "exited"
    /\ lastCall.op = "get_record_order"
    /\ lastCall.st = status
    /\ lastCall.ret = None

\* C7: a stored result covers all N data rows of the column, every batch of
\* the file having been read; after a read error or an observed cancellation
\* no result is ever stored.
C7_AllOrNothing ==
    /\ sort_result.tag = "Some" =>
          /\ Len(sort_result.val.record_indices) = file.rows
          /\ Len(sort_result.val.record_orders) = file.rows
          /\ Len(arrs) = NumBatches(file.rows)
          /\ Len(Concat(arrs)) = file.rows
          /\ file.fail = "none"
          /\ ~flag
    /\ flag \/ file.fail # "none" => sort_result = None
    /\ lastCall.op = "get_sorted_indices" /\ lastCall.ret.tag = "Some"
          /\ lastCall.a = 0 /\ lastCall.b = WordMax
          => Len(lastCall.ret.val) = file.rows

C7_Witness ==
    /\ sort_result.tag = "Some"
    /\ Len(arrs) >= 2
    /\ lastCall.op = "get_sorted_indices"
    /\ lastCall.a = 0
    /\ lastCall.b = WordMax
    /\ lastCall.ret.tag = "Some"
    /\ Len(lastCall.ret.val) = MaxRows

\* C8: under Finished, with rows_from + num_rows <= u64::MAX,
\* get_sorted_indices(rows_from, num_rows) returns Some of exactly
\* min(num_rows, max(0, N - rows_from)) entries, namely
\* record_indices[rows_from ..] in rank order, and nothing when rows_from >= N.
C8_Windowing ==
    /\ lastCall.op = "get_sorted_indices" /\ lastCall.st = Finished
          /\ lastCall.a + lastCall.b <= WordMax
          => lastCall.ret =
                Some(Window(sort_result.val.record_indices, lastCall.a, lastCall.b))
    /\ status = Finished /\ lock = "none" =>
          \A a \in Word, b \in Word, oc \in BOOLEAN :
             a + b <= WordMax =>
                SortedIndices(a, b, oc) =
                   Some(Window(sort_result.val.record_indices, a, b))

C8_Witness ==
    /\ lastCall.op = "get_sorted_indices"
    /\ lastCall.st = Finished
    /\ lastCall.a = 1
    /\ lastCall.b = 2
    /\ file.rows = 2
    /\ lastCall.ret.tag = "Some"
    /\ Len(lastCall.ret.val) = 1
    /\ lastCall.ret.val[1] = sort_result.val.record_indices[2]
    /\ lastCall.ret.val[1] = 0

\* C9: under Finished, for every pair of u64 arguments, also one whose sum
\* exceeds u64::MAX, get_sorted_indices(rows_from, num_rows) returns Some of
\* exactly min(num_rows, max(0, N - rows_from)) entries.
C9_WindowingWholeRange ==
    lastCall.op = "get_sorted_indices" /\ lastCall.st = Finished =>
       /\ lastCall.ret.tag = "Some"
       /\ Len(lastCall.ret.val) =
             Min(lastCall.b,
                 Max(0, Len(sort_result.val.record_indices) - lastCall.a))

\* C10: get_record_order(row_index) returns Some(record_orders[row_index])
\* exactly when the status is Finished and row_index < N, and None otherwise.
C10_RecordOrder ==
    /\ lastCall.op = "get_record_order" =>
          lastCall.ret =
             IF lastCall.st = Finished
                /\ lastCall.a < Len(sort_result.val.record_orders)
             THEN Some(sort_result.val.record_orders[lastCall.a + 1])
             ELSE None
    /\ lock = "none" =>
          \A a \in Word :
             RecordOrder(a) =
                IF status = Finished /\ a < Len(sort_result.val.record_orders)
                THEN Some(sort_result.val.record_orders[a + 1])
                ELSE None

C10_Witness ==
    /\ lastCall.op = "get_record_order"
    /\ lastCall.st = Finished
    /\ lastCall.a = 0
    /\ lastCall.ret = Some(2)
    /\ sort_result.val.record_indices = <<1, 2, 0>>
    /\ sort_result.val.record_orders = <<2, 0, 1>>

\* the column the worker has read: the concatenation of its batches
Column == Concat(arrs)

\* C11: a stored result has record_indices and record_orders of length N,
\* record_indices is a permutation of 0..N-1, and the two are inverse to each
\* other; so get_record_order of the row that get_sorted_indices(r, 1)
\* returns is r.
C11_InversePermutation ==
    /\ sort_result.tag = "Some" =>
          LET ri == sort_result.val.record_indices
              ro == sort_result.val.record_orders
              N == file.rows
          IN  /\ Len(ri) = N
              /\ Len(ro) = N
              /\ {ri[k] : k \in 1..N} = 0..(N - 1)
              /\ \A i \in 0..(N - 1) :
                    /\ ri[ro[i + 1] + 1] = i
                    /\ ro[ri[i + 1] + 1] = i
              /\ lock = "none" =>
                    \A r \in 0..(N - 1) :
                       RecordOrder(SortedIndices(r, 1, FALSE).val[1]) = Some(r)
    /\ lastCall.op = "get_record_order" /\ lastCall.ret.tag = "Some" =>
          sort_result.val.record_indices[lastCall.ret.val + 1] = lastCall.a

C11_Witness ==
    /\ status = Finished
    /\ sort_result.val.record_indices = <<2, 0, 1>>
    /\ sort_result.val.record_orders = <<1, 2, 0>>
    /\ lastCall.op = "get_record_order"
    /\ lastCall.a = 2
    /\ lastCall.ret = Some(0)

\* C12: in a stored result, of two rows i < j with equal column values
\* row i has the smaller rank, whatever the sort kernel does with ties.
C12_TiesByRowIndex ==
    sort_result.tag = "Some" =>
       LET ro == sort_result.val.record_orders
       IN  \A i, j \in 1..Len(Column) :
              i < j /\ Column[i] = Column[j] => ro[i] < ro[j]

\* C13: in a stored result the non-null column values, read in rank order,
\* are non-decreasing; so are the values at the rows that
\* get_sorted_indices returns for a window starting at rank 0.
C13_NonDecreasing ==
    /\ sort_result.tag = "Some" =>
          LET ri == sort_result.val.record_indices
          IN  \A r, s \in 1..Len(ri) :
                 /\ r < s
                 /\ ~IsNull(Column[ri[r] + 1])
                 /\ ~IsNull(Column[ri[s] + 1])
                 => Column[ri[r] + 1] <= Column[ri[s] + 1]
    /\ lastCall.op = "get_sorted_indices" /\ lastCall.ret.tag = "Some" =>
          LET out == lastCall.ret.val
          IN  \A r, s \in 1..Len(out) :
                 /\ r < s
                 /\ ~IsNull(Column[out[r] + 1])
                 /\ ~IsNull(Column[out[s] + 1])
                 => Column[out[r] + 1] <= Column[out[s] + 1]

C13_Witness ==
    /\ status = Finished
    /\ Column = <<2, 1, 1>>
    /\ lastCall.op = "get_sorted_indices"
    /\ lastCall.a = 0
    /\ lastCall.b >= file.rows
    /\ lastCall.ret.tag = "Some"
    /\ Len(lastCall.ret.val) = 3
    /\ lastCall.ret.val[3] = 0

\* C14 as stated: in a stored result every null row has a larger rank than
\* every non-null row (nulls last).
C14_NullsLast ==
    sort_result.tag = "Some" =>
       LET ro == sort_result.val.record_orders
       IN  \A i, j \in 1..Len(Column) :
              IsNull(Column[i]) /\ ~IsNull(Column[j]) => ro[i] > ro[j]

\* C14: in a stored result every null row has a smaller rank than every
\* non-null row (nulls first, the default of the sort options).
C14_NullsFirst ==
    sort_result.tag = "Some" =>
       LET ro == sort_result.val.record_orders
       IN  \A i, j \in 1..Len(Column) :
              IsNull(Column[i]) /\ ~IsNull(Column[j]) => ro[i] < ro[j]

C14_Witness ==
    /\ status = Finished
    /\ Column = <<1, 0, 2>>
    /\ sort_result.val.record_indices = <<1, 0, 2>>

\* a step of the client: every step of the worker moves pc
ClientStep == pc' = pc

\* C15: a terminate call sets should_terminate to true and changes nothing
\* else of the internal state, a second call changes nothing at all, and the
\* flag is never reset; status, get_sorted_indices, get_record_order,
\* column_name and order leave the internal state as it is; no step of the
\* client writes status, sort_result or done.
C15_ClientFrame ==
    [][ /\ should_terminate => should_terminate'
        /\ ClientStep => UNCHANGED <<sort_result, status, done>>
        /\ ClientStep /\ lastCall'.op \in {"terminate", "drop"} =>
              /\ should_terminate'
              /\ should_terminate => UNCHANGED shared
        /\ ClientStep /\ lastCall'.op \in {"status", "get_sorted_indices",
                               "get_record_order", "column_name", "order"} =>
              UNCHANGED shared
      ]_vars

C15_Witness ==
    /\ lastCall.op = "terminate"
    /\ lastCall.st = Error("Terminated")
    /\ should_terminate
    /\ flagSetAt = 0
    /\ status = Error("Terminated")
    /\ sort_result = None

\* C16: the worker has read should_terminate once for each batch it has
\* pushed (the check of the last one may be pending); once a check has read
\* true the worker reads no batch, does not reach concat or sort, stores no
\* result and reports Error("Terminated"); after the flag is set at most one
\* more batch is read.
C16_BatchBoundary ==
    /\ checks = (IF pc = "check" THEN Len(arrs) - 1 ELSE Len(arrs))
    /\ flag =>
          /\ pc \in {"checked", "publish", "store", "done", "unlock", "exited"}
          /\ Len(arrs) = checks
          /\ sort_result = None
          /\ pc # "checked" => run_result = Err("Terminated")
          /\ status \in {Running, Error("Terminated")}
          /\ pc \in {"done", "unlock", "exited"} => status = Error("Terminated")
    /\ flagSetAt >= 0 => Len(arrs) <= flagSetAt + 1

C16_Witness ==
    /\ file.rows = 3
    /\ flagSetAt = 1
    /\ flag
    /\ Len(arrs) = 2
    /\ checks = 2
    /\ pc = "exited"
    /\ status = Error("Terminated")

\* C17: the worker holds the lock exactly in the flag check and in the
\* publish section, never in infer, open, next, concat or sort; whenever the
\* worker has not ended it can take a step or the lock is free for it, and it
\* never ends holding the lock; with the lock free each query of a live
\* handle can run at once, and one made while the job is running has
\* returned None.
C17_LockDiscipline ==
    /\ lock = "worker" <=> pc \in {"checked", "store", "finish", "done", "unlock"}
    /\ pc \notin {"exited", "panicked"} => ENABLED Worker
    /\ handle = "live" /\ lock = "none" =>
          /\ ENABLED Status
          /\ ENABLED GetSortedIndices
          /\ ENABLED GetRecordOrder
    /\ /\ lastCall.op \in {"get_sorted_indices", "get_record_order"}
       /\ lastCall.st = Running
       => lastCall.ret = None

C17_Witness ==
    /\ pc = "next"
    /\ Len(arrs) = 1
    /\ file.rows = 3
    /\ lock = "none"
    /\ handle = "live"
    /\ lastCall.op = "get_record_order"
    /\ lastCall.st = Running
    /\ lastCall.ret = None

\* C18: when the handle was released while the worker was running, the
\* worker, once ended, has published a terminal status and set done.
C18_DroppedWorkerPublishes ==
    [][ /\ handle = "dropped"
        /\ pc \notin {"exited", "panicked"}
        /\ pc' \in {"exited", "panicked"}
        => done' /\ status'.tag \in {"Finished", "Error"}
      ]_vars

\* C19: when terminate is first called after the worker's flag check of the
\* last batch of a readable, non-empty file, no check reads the flag as true,
\* the status never becomes an Error, and the worker ends with Finished, the
\* full result, and should_terminate still true.
C19_LateTerminateUnobserved ==
    /\ file.rows > 0
    /\ file.fail = "none"
    /\ flagSetAt = NumBatches(file.rows)
    => /\ should_terminate
       /\ ~flag
       /\ status \in {Running, Finished}
       /\ run_result.tag \in {"NoRun", "Ok"}
       /\ pc # "panicked"
       /\ pc = "exited" =>
             /\ status = Finished
             /\ done
             /\ sort_result.tag = "Some"
             /\ Len(sort_result.val.record_indices) = file.rows

C19_Witness ==
    /\ file.rows = 3
    /\ flagSetAt = 2
    /\ lastCall.op = "terminate"
    /\ lastCall.st = Running
    /\ pc = "exited"
    /\ status = Finished
    /\ should_terminate

\* C20: whenever the worker does not hold the lock, done is true exactly if
\* the status is Finished or Error; a round of wait_internal reads true
\* exactly under a terminal status, and once it has, the status is terminal
\* and get_sorted_indices returns a result exactly if the status is Finished.
C20_DoneIffTerminal ==
    /\ lock = "none" => (done <=> status.tag \in {"Finished", "Error"})
    /\ lastCall.op = "wait_internal" =>
          lastCall.ret = Some(lastCall.st.tag \in {"Finished", "Error"})
    /\ lastCall.op = "wait_internal" /\ lastCall.ret = Some(TRUE) =>
          /\ status = lastCall.st
          /\ status.tag \in {"Finished", "Error"}
          /\ lock = "none"
          /\ \A a, b \in Word :
                /\ SortedIndices(a, b, TRUE).tag # "None" <=> status = Finished
                /\ SortedIndices(a, b, FALSE).tag = "Some" <=> status = Finished
                /\ a + b <= WordMax =>
                      (SortedIndices(a, b, TRUE).tag = "Some" <=> status = Finished)

C20_Witness ==
    /\ lastCall.op = "wait_internal"
    /\ lastCall.ret = Some(TRUE)
    /\ status = Finished
    /\ done
    /\ file.rows = 3
    /\ SortedIndices(0, WordMax, FALSE).tag = "Some"

====
